---- MODULE Spec2Model ----
(***************************************************************************)
(* Model of tile_tools.py: TileSet enumeration (deg2num / pop_tileset),    *)
(* TileDownloadJob (gen_download_lists, get_tiles over an eventlet         *)
(* GreenPool) and TileStitchJob.stitch, together with the filesystem they  *)
(* read and write.                                                         *)
(*                                                                         *)
(* Units: latitudes and longitudes are integers in hundredths of a degree. *)
(* The Mercator limit 85.05112877980659 lies strictly between 85.05 and    *)
(* 85.06, so on this grid "lat > limit" is "lat > 8505"; the value 8505    *)
(* itself is used only as the result of clamping.                          *)
(***************************************************************************)
EXTENDS Integers, Sequences, FiniteSets, TLC

VARIABLES
    bbox,          \* TileSet.bbox: [n, e, s, w]
    zoom_min,      \* TileSet.zoom_min
    zoom_max,      \* TileSet.zoom_max
    tiles,         \* TileSet.tiles: zoom -> sequence of Tile
    provider,      \* the remote provider: tile -> set of responses it may give
    files,         \* disk: path of a tile file -> content (NoFile when absent)
    dirs,          \* disk: the tile directories {z}/{x} that exist
    out_png,       \* disk: {jobName}.png
    out_pngw,      \* disk: {jobName}.pngw
    pc,            \* position of the running process
    runs,          \* number of invocations of tile.py so far
    downloads,     \* TileDownloadJob.downloads
    exists,        \* TileDownloadJob.exists
    counts,        \* TileDownloadJob.counts
    image,         \* Tile.image of every tile
    spawner,       \* position of GreenPool._do_map: "spawn", "put" or "finished"
    spawned,       \* number of tiles handed to pool.spawn
    queued,        \* number of green threads put on the GreenMap's waiters queue
    consumed,      \* number of results the for loop of get_tiles has taken
    gt,            \* state of the green thread of downloads[i]
    outcome,       \* response received for downloads[i] (NoResp before)
    dispatch_log,  \* the tiles in the order they were handed to the pool
    requests,      \* number of urlopen calls made for downloads[i]
    stitch_zoom,   \* TileStitchJob.zoom
    c,             \* the counter c of stitch()
    canvas         \* the image stitch() pastes the tiles into

vars == <<bbox, zoom_min, zoom_max, tiles, provider, files, dirs, out_png,
          out_pngw, pc, runs, downloads, exists, counts, image, spawner,
          spawned, queued, consumed, gt, outcome, dispatch_log, requests,
          stitch_zoom, c, canvas>>

tilesetVars == <<bbox, zoom_min, zoom_max, tiles, provider>>
diskVars == <<files, dirs, out_png, out_pngw>>
jobVars == <<downloads, exists, counts, image>>
poolVars == <<spawner, spawned, queued, consumed, gt, outcome, dispatch_log,
              requests>>
stitchVars == <<stitch_zoom, c, canvas>>

(***************************************************************************)
(* Bounds                                                                  *)
(***************************************************************************)
MaxZoom == 2
MaxTiles == 3
MaxRuns == 2

Range(s) == {s[i] : i \in DOMAIN s}

(***************************************************************************)
(* TileSet                                                                 *)
(***************************************************************************)
MercatorLimit == 8505

check_north(north) == IF north > MercatorLimit THEN MercatorLimit ELSE north

check_south(south) == IF south < -MercatorLimit THEN -MercatorLimit ELSE south

\* (1.0 - math.log(math.tan(lat_rad) + 1/math.cos(lat_rad)) / math.pi) / 2.0,
\* in 1/256ths truncated, as the floating-point expression of deg2num
\* evaluates at these latitudes (8505 stands for 85.05112877980659).
MercFrac(lat) ==
    CASE lat = 8505 -> 0
      [] lat = 8500 -> 0
      [] lat = 6000 -> 74
      [] lat = 3000 -> 105
      [] lat = 0 -> 128
      [] lat = -3000 -> 150
      [] lat = -6000 -> 181
      [] lat = -8500 -> 255
      [] lat = -8505 -> 255

python_range(a, b) == [i \in 1..(b - a) |-> a + i - 1]

deg2num(lat_deg, lon_deg, zoom) ==
    <<((lon_deg + 18000) * 2^zoom) \div 36000,
      (MercFrac(lat_deg) * 2^zoom) \div 256>>

top_left(b, zoom) == deg2num(b.n, b.w, zoom)

bottom_right(b, zoom) == deg2num(b.s, b.e, zoom)

cols(b, zoom) == python_range(top_left(b, zoom)[1], bottom_right(b, zoom)[1] + 1)

rows(b, zoom) == python_range(top_left(b, zoom)[2], bottom_right(b, zoom)[2] + 1)

Tile(x, y, z) == [x |-> x, y |-> y, z |-> z]

zoom_tiles(b, zoom) ==
    LET cs == cols(b, zoom)
        rs == rows(b, zoom)
    IN  [k \in 1..(Len(cs) * Len(rs)) |->
            Tile(cs[((k - 1) \div Len(rs)) + 1], rs[((k - 1) % Len(rs)) + 1], zoom)]

pop_tileset(b, zmin, zmax) == [zoom \in zmin..zmax |-> zoom_tiles(b, zoom)]

make_bbox(extents) ==
    [n |-> check_north(extents.n), e |-> extents.e,
     s |-> check_south(extents.s), w |-> extents.w]

AllTiles == UNION {Range(tiles[z]) : z \in DOMAIN tiles}

\* the tiles of every zoom in the order gen_download_lists visits them
RECURSIVE tile_list(_, _, _)
tile_list(ts, zmin, zmax) ==
    IF zmin > zmax THEN <<>> ELSE ts[zmin] \o tile_list(ts, zmin + 1, zmax)

(***************************************************************************)
(* Inputs of the TileSet constructor                                       *)
(***************************************************************************)
Lats == {9000, 8500, 6000, 0, -3000, -8500, -9000}
Lons == {-18000, -9000, -100, 0, 4500, 17999, 18000}

Extents ==
    {e \in [n : Lats, e : Lons, s : Lats, w : Lons] :
        /\ e.n >= e.s
        /\ e.w <= e.e
        /\ e.n > -MercatorLimit
        /\ e.s < MercatorLimit}

NoTiles == [z \in {} |-> <<>>]

\* values of the job, pool and stitch state before a job exists
Idle ==
    /\ downloads = <<>>
    /\ exists = <<>>
    /\ counts = [k \in {} |-> 0]
    /\ spawner = "finished"
    /\ spawned = 0
    /\ queued = 0
    /\ consumed = 0
    /\ gt = <<>>
    /\ outcome = <<>>
    /\ dispatch_log = <<>>
    /\ requests = <<>>
    /\ stitch_zoom = 0
    /\ c = 0
    /\ canvas = <<>>

InitGrid ==
    /\ bbox \in Extents
    /\ zoom_min \in 0..MaxZoom
    /\ zoom_max \in zoom_min..MaxZoom
    /\ tiles = NoTiles
    /\ provider = <<>>
    /\ files = <<>>
    /\ dirs = {}
    /\ out_png = <<>>
    /\ out_pngw = <<>>
    /\ pc = "init"
    /\ runs = 0
    /\ image = <<>>
    /\ Idle

\* TileSet.__init__: clamp the latitudes, then enumerate the tiles
TileSetInit ==
    /\ pc = "init"
    /\ bbox' = make_bbox(bbox)
    /\ tiles' = pop_tileset(make_bbox(bbox), zoom_min, zoom_max)
    /\ pc' = "start"
    /\ UNCHANGED <<zoom_min, zoom_max, provider, diskVars, runs, jobVars,
                   poolVars, stitchVars>>

NextGrid == TileSetInit

SpecGrid == InitGrid /\ [][NextGrid]_vars

(***************************************************************************)
(* Payloads, responses and the image codec                                 *)
(***************************************************************************)
None == "None"
NoFile == "absent"
BlankPng == "png:blank"

Bodies == {"png:tile", "jpeg:tile", "html", ""}

Responses ==
    {[kind |-> "ok", code |-> 200, body |-> b] : b \in Bodies}
    \cup {[kind |-> "HTTPError", code |-> k, body |-> ""] : k \in {403, 404, 500}}
    \cup {[kind |-> "URLError", code |-> 0, body |-> ""]}

NoResp == [kind |-> "none", code |-> 0, body |-> ""]

\* `if tile.image:`
truthy(data) == data # None /\ data # ""

\* Image.open succeeds on image data only
can_open(data) == data \in {"png:tile", "jpeg:tile", "png:blank"}

\* Image.open(StringIO(data)): the picture the data encodes
image_open(data) ==
    CASE data = "png:tile" -> "tile"
      [] data = "jpeg:tile" -> "tile"
      [] data = "png:blank" -> "blank"

\* im.save(filename, "PNG"): the bytes written
save_png(im) ==
    CASE im = "tile" -> "png:tile"
      [] im = "blank" -> "png:blank"

full_path(tile) == <<tile.z, tile.x, tile.y>>

dirname(path) == <<path[1], path[2]>>

(***************************************************************************)
(* TileDownloadJob                                                         *)
(***************************************************************************)
PoolSize == 10

\* gen_download_lists without the existence test
gen_downloads_unchecked(ts, fs) == ts

test_file(fs, filename) == fs[filename] # NoFile

gen_downloads(ts, fs) == SelectSeq(ts, LAMBDA t : ~test_file(fs, full_path(t)))

gen_exists(ts, fs) == SelectSeq(ts, LAMBDA t : test_file(fs, full_path(t)))

\* TileDownloadJob.__init__ with gen_download_lists
JobInit ==
    /\ pc = "start"
    /\ LET ts == tile_list(tiles, zoom_min, zoom_max)
       IN  /\ downloads' = gen_downloads(ts, files)
           /\ exists' = gen_exists(ts, files)
           /\ counts' = [download |-> Len(gen_downloads(ts, files)),
                         exists |-> Len(gen_exists(ts, files))]
    /\ pc' = "ready"
    /\ UNCHANGED <<tilesetVars, diskVars, runs, image, poolVars, stitchVars>>

\* get_tiles up to the first iteration of its loop: the counters are set to
\* zero, the pool is made and imap starts the thread that spawns the fetches
GetTilesBegin ==
    /\ pc = "ready"
    /\ counts' = [k \in DOMAIN counts \cup {"blocked", "not_found", "found", "attempted"} |->
                    IF k \in {"blocked", "not_found", "found", "attempted"}
                    THEN 0 ELSE counts[k]]
    /\ spawner' = IF downloads = <<>> THEN "finished" ELSE "spawn"
    /\ spawned' = 0
    /\ queued' = 0
    /\ consumed' = 0
    /\ gt' = [i \in DOMAIN downloads |-> "unborn"]
    /\ outcome' = [i \in DOMAIN downloads |-> NoResp]
    /\ requests' = [i \in DOMAIN downloads |-> 0]
    /\ dispatch_log' = <<>>
    /\ pc' = "running"
    /\ UNCHANGED <<tilesetVars, diskVars, runs, downloads, exists, image, stitchVars>>

\* a pool that never makes spawn wait
pool_free_unbounded == TRUE

running_threads == {i \in DOMAIN gt : gt[i] \in {"new", "inflight"}}

\* GreenPool.spawn has a free slot
pool_free == Cardinality(running_threads) < PoolSize

\* the tile _do_map hands to the pool next
next_tile == spawned + 1

\* GreenPool._do_map, pool.spawn(fetch, tile): waits for a free slot
PoolSpawn ==
    /\ pc = "running"
    /\ spawner = "spawn"
    /\ pool_free
    /\ gt' = [gt EXCEPT ![next_tile] = "new"]
    /\ dispatch_log' = Append(dispatch_log, downloads[next_tile])
    /\ spawned' = spawned + 1
    /\ spawner' = "put"
    /\ UNCHANGED <<tilesetVars, diskVars, pc, runs, jobVars, queued, consumed,
                   outcome, requests, stitchVars>>

\* GreenPile.spawn, waiters.put(gt): waits while the queue holds PoolSize entries
QueuePut ==
    /\ pc = "running"
    /\ spawner = "put"
    /\ queued - consumed < PoolSize
    /\ queued' = queued + 1
    /\ spawner' = IF spawned = Len(downloads) THEN "finished" ELSE "spawn"
    /\ UNCHANGED <<tilesetVars, diskVars, pc, runs, jobVars, spawned, consumed,
                   gt, outcome, dispatch_log, requests, stitchVars>>

\* fetch with the attempt left uncounted
FetchStart_uncounted(i) ==
    /\ pc = "running"
    /\ gt[i] = "new"
    /\ \A j \in 1..(i - 1) : gt[j] # "new"
    /\ requests' = [requests EXCEPT ![i] = @ + 1]
    /\ gt' = [gt EXCEPT ![i] = "inflight"]
    /\ UNCHANGED <<tilesetVars, diskVars, pc, runs, jobVars, spawner, spawned,
                   queued, consumed, outcome, dispatch_log, stitchVars>>

\* fetch up to the suspension in urlopen; the hub starts the green threads in
\* the order they were spawned
FetchStart(i) ==
    /\ pc = "running"
    /\ gt[i] = "new"
    /\ \A j \in 1..(i - 1) : gt[j] # "new"
    /\ counts' = [counts EXCEPT !.attempted = @ + 1]
    /\ requests' = [requests EXCEPT ![i] = @ + 1]
    /\ gt' = [gt EXCEPT ![i] = "inflight"]
    /\ UNCHANGED <<tilesetVars, diskVars, pc, runs, downloads, exists, image,
                   spawner, spawned, queued, consumed, outcome, dispatch_log,
                   stitchVars>>

\* fetch counting the attempt a second time when the request ends
fetch_counts_recount(cnts, r) ==
    CASE r.kind = "ok" -> [cnts EXCEPT !.found = @ + 1, !.attempted = @ + 1]
      [] r.kind = "HTTPError" /\ r.code = 403 ->
            [cnts EXCEPT !.blocked = @ + 1, !.attempted = @ + 1]
      [] r.kind = "HTTPError" /\ r.code = 404 ->
            [cnts EXCEPT !.not_found = @ + 1, !.attempted = @ + 1]
      [] OTHER -> [cnts EXCEPT !.attempted = @ + 1]

\* the counters after fetch has classified response r
fetch_counts(cnts, r) ==
    CASE r.kind = "ok" -> [cnts EXCEPT !.found = @ + 1]
      [] r.kind = "HTTPError" /\ r.code = 403 -> [cnts EXCEPT !.blocked = @ + 1]
      [] r.kind = "HTTPError" /\ r.code = 404 -> [cnts EXCEPT !.not_found = @ + 1]
      [] OTHER -> cnts

\* fetch substituting the placeholder on every HTTP error
fetch_image_blank_on_error(old, r) ==
    CASE r.kind = "ok" -> r.body
      [] r.kind = "HTTPError" -> "png:blank"
      [] OTHER -> old

\* tile.image after fetch has classified response r
fetch_image(old, r) ==
    CASE r.kind = "ok" -> r.body
      [] r.kind = "HTTPError" /\ r.code = 404 -> BlankPng
      [] OTHER -> old

\* fetch from the answer of urlopen to `return tile`
FetchReturn(i) ==
    /\ pc = "running"
    /\ gt[i] = "inflight"
    /\ \E r \in provider[downloads[i]] :
        /\ counts' = fetch_counts(counts, r)
        /\ image' = [image EXCEPT ![downloads[i]] = fetch_image(@, r)]
        /\ outcome' = [outcome EXCEPT ![i] = r]
    /\ gt' = [gt EXCEPT ![i] = "dead"]
    /\ UNCHANGED <<tilesetVars, diskVars, pc, runs, downloads, exists, spawner,
                   spawned, queued, consumed, dispatch_log, requests,
                   stitchVars>>

progress_line(cnts) ==
    <<cnts.attempted, cnts.download, cnts.found, cnts.not_found, cnts.blocked>>

\* the loop body with exists.append outside the `if tile.image:` block
LoopBody_append_always ==
    /\ pc = "running"
    /\ consumed < queued
    /\ gt[consumed + 1] = "dead"
    /\ LET tile == downloads[consumed + 1]
           filename == <<tile.z, tile.x, tile.y>>
       IN  /\ dirs' = dirs \cup {<<tile.z, tile.x>>}
           /\ IF ~(image[tile] # "None" /\ image[tile] # "")
              THEN /\ consumed' = consumed + 1
                   /\ exists' = Append(exists, tile)
                   /\ UNCHANGED <<files, image, pc>>
              ELSE IF image[tile] \in {"png:tile", "jpeg:tile", "png:blank"}
              THEN /\ files' = [files EXCEPT ![filename] =
                            IF image[tile] = "png:blank" THEN "png:blank" ELSE "png:tile"]
                   /\ image' = [image EXCEPT ![tile] = "None"]
                   /\ exists' = Append(exists, tile)
                   /\ consumed' = consumed + 1
                   /\ UNCHANGED pc
              ELSE /\ pc' = "aborted"
                   /\ UNCHANGED <<files, image, exists, consumed>>
    /\ UNCHANGED <<tilesetVars, out_png, out_pngw, runs, downloads, counts,
                   spawner, spawned, queued, gt, outcome, dispatch_log,
                   requests, stitchVars>>

\* one iteration of `for tile in pool.imap(fetch, self.downloads)`: the results
\* come in the order of self.downloads; an iteration that does not raise ends
\* by writing progress_line(counts) to stdout
LoopBody ==
    /\ pc = "running"
    /\ consumed < queued
    /\ gt[consumed + 1] = "dead"
    /\ LET tile == downloads[consumed + 1]
           filename == full_path(tile)
       IN  /\ dirs' = dirs \cup {dirname(filename)}
           /\ IF ~truthy(image[tile])
              THEN /\ consumed' = consumed + 1
                   /\ UNCHANGED <<files, image, exists, pc>>
              ELSE IF can_open(image[tile])
              THEN /\ files' = [files EXCEPT ![filename] = save_png(image_open(image[tile]))]
                   /\ image' = [image EXCEPT ![tile] = None]
                   /\ exists' = Append(exists, tile)
                   /\ consumed' = consumed + 1
                   /\ UNCHANGED pc
              ELSE \* Image.open raises IOError out of get_tiles
                   /\ pc' = "aborted"
                   /\ UNCHANGED <<files, image, exists, consumed>>
    /\ UNCHANGED <<tilesetVars, out_png, out_pngw, runs, downloads, counts,
                   spawner, spawned, queued, gt, outcome, dispatch_log,
                   requests, stitchVars>>

\* the GreenMap is exhausted: get_tiles returns
LoopEnd ==
    /\ pc = "running"
    /\ spawner = "finished"
    /\ consumed = Len(downloads)
    /\ pc' = "done"
    /\ UNCHANGED <<tilesetVars, diskVars, runs, jobVars, poolVars, stitchVars>>

(***************************************************************************)
(* TileStitchJob                                                           *)
(***************************************************************************)
\* TileStitchJob.__init__ and stitch() up to its loop
StitchBegin(zoom) ==
    /\ pc = "ready"
    /\ stitch_zoom' = zoom
    /\ c' = 0
    /\ canvas' = <<>>
    /\ pc' = "stitching"
    /\ UNCHANGED <<tilesetVars, diskVars, runs, jobVars, poolVars>>

\* stitch() leaving a gap where a tile file is missing
StitchTile_skip_missing ==
    /\ pc = "stitching"
    /\ c < Len(tiles[stitch_zoom])
    /\ LET tile == tiles[stitch_zoom][c + 1]
           start == top_left(bbox, stitch_zoom)
       IN  IF files[<<tile.z, tile.x, tile.y>>] = "absent"
           THEN /\ c' = c + 1
                /\ UNCHANGED <<pc, canvas>>
           ELSE /\ canvas' = Append(canvas,
                        [cx |-> 256 * (tile.x - start[1]),
                         cy |-> 256 * (tile.y - start[2]),
                         im |-> IF files[<<tile.z, tile.x, tile.y>>] = "png:blank"
                                THEN "blank" ELSE "tile"])
                /\ c' = c + 1
                /\ UNCHANGED pc
    /\ UNCHANGED <<tilesetVars, diskVars, runs, jobVars, poolVars, stitch_zoom>>

\* one iteration of the loop of stitch(); Image.open raises on a missing file
StitchTile ==
    /\ pc = "stitching"
    /\ c < Len(tiles[stitch_zoom])
    /\ LET tile == tiles[stitch_zoom][c + 1]
           start == top_left(bbox, stitch_zoom)
       IN  IF files[full_path(tile)] = NoFile
           THEN /\ pc' = "stitch_failed"
                /\ UNCHANGED <<c, canvas>>
           ELSE /\ canvas' = Append(canvas,
                        [cx |-> 256 * (tile.x - start[1]),
                         cy |-> 256 * (tile.y - start[2]),
                         im |-> image_open(files[full_path(tile)])])
                /\ c' = c + 1
                /\ UNCHANGED pc
    /\ UNCHANGED <<tilesetVars, diskVars, runs, jobVars, poolVars, stitch_zoom>>

\* the end of stitch(): the mosaic and its world file are written
StitchSave ==
    /\ pc = "stitching"
    /\ c = Len(tiles[stitch_zoom])
    /\ out_png' = <<[zoom |-> stitch_zoom, pixels |-> canvas]>>
    /\ out_pngw' = <<[zoom |-> stitch_zoom, origin |-> top_left(bbox, stitch_zoom)]>>
    /\ pc' = "stitched"
    /\ UNCHANGED <<tilesetVars, files, dirs, runs, jobVars, poolVars, stitchVars>>

(***************************************************************************)
(* tile.py: one invocation is one process; only the disk outlives it       *)
(***************************************************************************)
NewProcess ==
    /\ pc \in {"ready", "done", "aborted", "stitched", "stitch_failed"}
    /\ runs < MaxRuns
    /\ runs' = runs + 1
    /\ pc' = "start"
    /\ image' = [t \in AllTiles |-> None]
    /\ downloads' = <<>>
    /\ exists' = <<>>
    /\ counts' = [k \in {} |-> 0]
    /\ spawner' = "finished"
    /\ spawned' = 0
    /\ queued' = 0
    /\ consumed' = 0
    /\ gt' = <<>>
    /\ outcome' = <<>>
    /\ dispatch_log' = <<>>
    /\ requests' = <<>>
    /\ stitch_zoom' = 0
    /\ c' = 0
    /\ canvas' = <<>>
    /\ UNCHANGED <<tilesetVars, diskVars>>

(***************************************************************************)
(* The download and stitch specification                                   *)
(***************************************************************************)
JobInputs ==
    {[ext |-> [n |-> 8500, e |-> 17999, s |-> -8500, w |-> -18000], zmin |-> 0, zmax |-> 0],
     [ext |-> [n |-> 9000, e |-> 18000, s |-> -9000, w |-> -18000], zmin |-> 0, zmax |-> 0],
     [ext |-> [n |-> 8500, e |-> -100, s |-> 6000, w |-> -18000], zmin |-> 0, zmax |-> 1],
     [ext |-> [n |-> 8500, e |-> -100, s |-> -3000, w |-> -100], zmin |-> 1, zmax |-> 1],
     [ext |-> [n |-> 8500, e |-> 4500, s |-> 6000, w |-> -9000], zmin |-> 1, zmax |-> 1],
     [ext |-> [n |-> 8500, e |-> -100, s |-> -3000, w |-> -100], zmin |-> 0, zmax |-> 1],
     [ext |-> [n |-> 8500, e |-> 4500, s |-> -3000, w |-> -9000], zmin |-> 1, zmax |-> 1]}

input_tiles(in) == tile_list(pop_tileset(make_bbox(in.ext), in.zmin, in.zmax), in.zmin, in.zmax)

InitProcess ==
    /\ out_png = <<>>
    /\ out_pngw = <<>>
    /\ pc = "start"
    /\ runs = 1
    /\ image = [t \in AllTiles |-> None]
    /\ Idle

InitDisk ==
    /\ files \in [{full_path(t) : t \in AllTiles} -> {NoFile, "png:tile"}]
    /\ dirs = {dirname(p) : p \in {q \in DOMAIN files : files[q] # NoFile}}

Init ==
    /\ \E in \in {j \in JobInputs : Len(input_tiles(j)) <= MaxTiles} :
        /\ bbox = make_bbox(in.ext)
        /\ zoom_min = in.zmin
        /\ zoom_max = in.zmax
        /\ tiles = pop_tileset(make_bbox(in.ext), in.zmin, in.zmax)
    /\ provider = [t \in AllTiles |-> Responses]
    /\ InitDisk
    /\ InitProcess

Next ==
    \/ JobInit
    \/ GetTilesBegin
    \/ PoolSpawn
    \/ QueuePut
    \/ \E i \in DOMAIN gt : FetchStart(i)
    \/ \E i \in DOMAIN gt : FetchReturn(i)
    \/ LoopBody
    \/ LoopEnd
    \/ \E zoom \in zoom_min..zoom_max : StitchBegin(zoom)
    \/ StitchTile
    \/ StitchSave
    \/ NewProcess

Spec == Init /\ [][Next]_vars

(***************************************************************************)
(* The same job on a tile set larger than the pool, on an empty or a full  *)
(* disk, against a provider that answers each tile in one fixed way        *)
(***************************************************************************)
PoolInput ==
    [ext |-> [n |-> 8500, e |-> 4500, s |-> 8500, w |-> -18000], zmin |-> 4, zmax |-> 4]

ok_png == [kind |-> "ok", code |-> 200, body |-> "png:tile"]

http_error(code) == [kind |-> "HTTPError", code |-> code, body |-> ""]

\* a provider that has one column in three, lacks the next and refuses the third
by_column(t) ==
    CASE t.x % 3 = 0 -> ok_png
      [] t.x % 3 = 1 -> http_error(404)
      [] OTHER -> http_error(403)

InitPool ==
    /\ bbox = make_bbox(PoolInput.ext)
    /\ zoom_min = PoolInput.zmin
    /\ zoom_max = PoolInput.zmax
    /\ tiles = pop_tileset(make_bbox(PoolInput.ext), PoolInput.zmin, PoolInput.zmax)
    /\ provider = [t \in AllTiles |-> {by_column(t)}]
    /\ \E content \in {NoFile, "png:tile"} :
        files = [p \in {full_path(t) : t \in AllTiles} |-> content]
    /\ dirs = {dirname(p) : p \in {q \in DOMAIN files : files[q] # NoFile}}
    /\ InitProcess

SpecPool == InitPool /\ [][Next]_vars

(***************************************************************************)
(* Properties                                                              *)
(***************************************************************************)
in_get_tiles == pc \in {"running", "done", "aborted"}

answered(P(_)) == {i \in DOMAIN outcome : P(outcome[i])}

is_403(r) == r.kind = "HTTPError" /\ r.code = 403
is_404(r) == r.kind = "HTTPError" /\ r.code = 404
is_ok(r) == r.kind = "ok"
is_failure(r) == r.kind = "URLError" \/ (r.kind = "HTTPError" /\ r.code \notin {403, 404})

in_flight == {i \in DOMAIN gt : gt[i] = "inflight"}

\* the payload response r leaves on a tile that had none
payload_of(r) ==
    CASE r.kind = "ok" -> r.body
      [] r.kind = "HTTPError" /\ r.code = 404 -> "png:blank"
      [] OTHER -> "None"

has_image(r) == payload_of(r) \in {"png:tile", "jpeg:tile", "png:blank"}

file_of(i) == files[<<downloads[i].z, downloads[i].x, downloads[i].y>>]

\* C1: once get_tiles has returned, counts['attempted'] equals the number of
\* tiles in downloads, which is counts['download'] as set at construction,
\* whatever the responses were and however the green threads interleaved.
C1_AttemptedIsDownloadCount ==
    pc = "done" =>
        /\ counts.attempted = Len(downloads)
        /\ counts.attempted = counts.download

C1_Witness ==
    /\ pc = "done"
    /\ Len(downloads) = 2
    /\ is_failure(outcome[1])
    /\ is_404(outcome[2])

\* C2: a tile answered with 404 adds exactly one to not_found and nothing to
\* found, and when the run is over its file holds the placeholder image and
\* the tile is in exists.
C2_NotFoundEndsAsPlaceholder ==
    in_get_tiles =>
        /\ counts.not_found = Cardinality(answered(is_404))
        /\ counts.found = Cardinality(answered(is_ok))
        /\ pc \in {"done", "aborted"} =>
            \A i \in answered(is_404) :
                /\ file_of(i) = "png:blank"
                /\ downloads[i] \in Range(exists)

\* C3: a tile answered with 403 adds exactly one to blocked and nothing to
\* found or not_found, gets no payload, has no file written and is not added
\* to exists.
C3_BlockedLeavesNoFile ==
    in_get_tiles =>
        /\ counts.blocked = Cardinality(answered(is_403))
        /\ counts.found = Cardinality(answered(is_ok))
        /\ counts.not_found = Cardinality(answered(is_404))
        /\ \A i \in answered(is_403) :
            /\ image[downloads[i]] = "None"
            /\ file_of(i) = "absent"
            /\ downloads[i] \notin Range(exists)

C3_Witness ==
    /\ pc = "done"
    /\ Len(downloads) = 2
    /\ is_403(outcome[1])
    /\ is_ok(outcome[2])
    /\ file_of(2) = "png:tile"

\* C4: no response to any tile aborts get_tiles: the run takes every tile of
\* downloads and returns, and every tile that got an image is on disk then.
C4_NoFailureAbortsTheRun ==
    /\ pc # "aborted"
    /\ pc = "done" =>
        /\ consumed = Len(downloads)
        /\ \A i \in DOMAIN outcome : has_image(outcome[i]) => file_of(i) # "absent"

missing_tile ==
    \E i \in DOMAIN tiles[stitch_zoom] :
        files[<<stitch_zoom, tiles[stitch_zoom][i].x, tiles[stitch_zoom][i].y>>] = "absent"

\* C5: while stitch() runs on a zoom with a tile file absent, no step finishes
\* the stitch or changes {jobName}.png or {jobName}.pngw, and the step that
\* reaches the absent file fails, wherever the tile is in the sequence.
C5_MissingTileFailsStitch ==
    [][(pc = "stitching" /\ missing_tile) =>
        /\ pc' \in {"stitching", "stitch_failed"}
        /\ out_png' = out_png
        /\ out_pngw' = out_pngw
        /\ (c' = c => pc' = "stitch_failed")]_vars

C5_Witness ==
    /\ pc = "stitch_failed"
    /\ c = 1
    /\ out_png = <<>>
    /\ out_pngw = <<>>

\* C6: a constructed job has every tile of every zoom in exactly one of
\* downloads and exists, in exists exactly when its file exists; with every
\* file present downloads is empty and exists is the whole tile list; and a
\* run requests no tile whose file was there at construction.
C6_PartitionByExistence ==
    /\ pc = "ready" =>
        /\ \A t \in AllTiles :
            /\ t \in Range(exists) <=> files[<<t.z, t.x, t.y>>] # "absent"
            /\ t \in Range(downloads) <=> files[<<t.z, t.x, t.y>>] = "absent"
        /\ Len(downloads) + Len(exists) = Cardinality(AllTiles)
        /\ (\A p \in DOMAIN files : files[p] # "absent") =>
            /\ downloads = <<>>
            /\ exists = tile_list(tiles, zoom_min, zoom_max)
    /\ in_get_tiles =>
        \A i \in DOMAIN requests :
            requests[i] > 0 => downloads[i] \notin Range(SubSeq(exists, 1, counts.exists))

C6_Witness ==
    /\ runs = 2
    /\ pc = "ready"
    /\ downloads = <<>>
    /\ Len(exists) = 2
    /\ \E p \in DOMAIN files : files[p] = "png:blank"

\* C7: every tile enumerated at zoom Z has 0 <= x < 2^Z and 0 <= y < 2^Z and
\* lies between top_left(Z) and bottom_right(Z).
C7_TilesWithinGrid ==
    \A z \in DOMAIN tiles : \A i \in DOMAIN tiles[z] :
        LET t == tiles[z][i] IN
        /\ 0 <= t.x /\ t.x < 2^z
        /\ 0 <= t.y /\ t.y < 2^z
        /\ top_left(bbox, z)[1] <= t.x /\ t.x <= bottom_right(bbox, z)[1]
        /\ top_left(bbox, z)[2] <= t.y /\ t.y <= bottom_right(bbox, z)[2]

\* C8 as claimed: downloads and exists never share a tile.
C8_AlwaysDisjoint == Range(downloads) \cap Range(exists) = {}

\* C8: downloads and exists are disjoint when the job is constructed; get_tiles
\* appends each tile it persists to exists and leaves it in downloads, so the
\* tiles in both are exactly the tiles this run has persisted.
C8_SharedAreThePersisted ==
    /\ pc \in {"start", "ready"} => Range(downloads) \cap Range(exists) = {}
    /\ in_get_tiles =>
        Range(downloads) \cap Range(exists) =
            {downloads[i] : i \in {j \in 1..consumed : has_image(outcome[j])}}

C8_Witness ==
    /\ pc = "done"
    /\ Len(downloads) = 2
    /\ Range(downloads) \cap Range(exists) = {downloads[2]}
    /\ Len(exists) = 1

\* C9: at most 10 requests are in flight, no tile is requested twice, and the
\* tiles are handed to the pool in the order of downloads.
C9_BoundedOrderedOnce ==
    /\ Cardinality(in_flight) <= 10
    /\ \A i \in DOMAIN requests : requests[i] <= 1
    /\ Len(dispatch_log) <= Len(downloads)
    /\ \A k \in DOMAIN dispatch_log : dispatch_log[k] = downloads[k]

C9_Witness ==
    /\ Cardinality(in_flight) = 10
    /\ Len(downloads) > 10
    /\ spawned = 10
    /\ consumed = 0

classified ==
    counts.found + counts.not_found + counts.blocked + Cardinality(answered(is_failure))

\* C10 as claimed: the counters a progress line shows have attempted equal to
\* the number of classified tiles, none of them still in flight.
C10_ProgressCountsClassified ==
    [][consumed' = consumed + 1 => progress_line(counts')[1] = classified']_vars

\* C10: attempted is incremented when the fetch of a tile starts, before its
\* request is issued: attempted is the number of tiles whose request was made,
\* the classified ones plus those still in flight.
C10_AttemptedCountsStarted ==
    in_get_tiles =>
        /\ counts.attempted = classified + Cardinality(in_flight)
        /\ counts.attempted = Cardinality({i \in DOMAIN requests : requests[i] = 1})

C10_Witness ==
    /\ pc = "running"
    /\ consumed = 1
    /\ Cardinality(in_flight) = 1
    /\ counts.attempted = 2
    /\ classified = 1

====
